---- MODULE Spec2Model ----
(***************************************************************************)
(* ForgeEngine: the OpenGL pipeline manager (gl_renderer) in its two       *)
(* variants, the direct fragment-shader renderer of src/gl_renderer.c and  *)
(* the compute+blit renderer of src/unnamed/part_001, and the free-fly     *)
(* camera of src/main.c.                                                   *)
(*                                                                         *)
(* GPU objects are accounted for the way the application sees them: an     *)
(* object is outstanding from the glCreate*/glGen* call that made it until *)
(* the glDelete* call that names it.                                       *)
(***************************************************************************)
EXTENDS Integers, Sequences, FiniteSets, TLC

VARIABLES
    variant,     \* which translation unit is linked in: "direct" or "compute"
    renderer,    \* main.c's `renderer` pointer: NULL or the address of the struct
    r,           \* the contents of struct gl_renderer (all zero while unallocated)
    heap,        \* number of live struct gl_renderer allocations (calloc/free)
    gl,          \* outstanding GL objects: shaders, programs, textures, vaos, buffers
    cmds,        \* GPU commands issued by the most recent API call
    incoherent,  \* kinds of read to which shader writes to the texture are not yet visible
    race,        \* a read of the output texture was issued while it was incoherent
    last,        \* the most recent API call: operation, result, failing stage, objects before
    base,        \* outstanding GL objects when the current renderer's create was called
    req,         \* dimensions passed by the most recent create/resize of the current renderer
    nbuild,      \* number of shader builds attempted so far (create and reload calls)
    yaw,         \* camera_t.yaw, in milliradians
    pitch,       \* camera_t.pitch, in milliradians
    upd,         \* the most recent camera_update: its mouse deltas, whether pos changed
    opv,         \* one evaluation of an SDF operator: its operands and its results
    mr,          \* one run of raymarch: the scene along the ray, loop state, outputs
    sw,          \* one run of shadow_ray: the samples, loop state, result
    twin         \* a direct and a compute+blit renderer driven by the same calls

vars == <<variant, renderer, r, heap, gl, cmds, incoherent, race, last, base, req,
          nbuild, yaw, pitch, upd, opv, mr, sw, twin>>

rendererVars == <<variant, renderer, r, heap, gl, cmds, incoherent, race, last, base,
                  req, nbuild>>

cameraVars == <<yaw, pitch, upd>>

shaderVars == <<opv, mr, sw>>

\* everything but the renderer, and everything but the camera
notRendererVars == <<cameraVars, shaderVars, twin>>
notCameraVars == <<rendererVars, shaderVars, twin>>

(***************************************************************************)
(* Bounds of the model.                                                    *)
(***************************************************************************)
\* create and reload calls explored in one behaviour
MaxBuilds == 3
\* |yaw| explored, in units of 1000 milliradians
MaxYaw == 4

(***************************************************************************)
(* Program constants.                                                      *)
(***************************************************************************)
NULL == 0
\* largest value of the C type int of the width and height fields
INT_MAX == 2147483647
\* largest texture dimension a GL 4.3 context has to accept
GL_MAX_TEXTURE_SIZE == 16384
WIDTH == 1600
HEIGHT == 900
\* MOUSE_SENSITIVITY 0.002f, in milliradians per mouse count
MOUSE_SENSITIVITY == 2
\* the pitch clamp 1.57f, in milliradians
PITCH_LIMIT == 1570

ZeroStruct ==
    [width |-> 0, height |-> 0, program |-> 0, compute_program |-> 0,
     display_program |-> 0, output_texture |-> 0, vao |-> 0, vbo |-> 0, ok |-> FALSE]

EmptyGL ==
    [shaders |-> {}, programs |-> {}, textures |-> {}, vaos |-> {}, buffers |-> {}]

(***************************************************************************)
(* Inputs.                                                                 *)
(***************************************************************************)
\* width/height pairs handed to create and resize
DimPairs ==
    { <<WIDTH, HEIGHT>>, <<9, 7>>, <<0, 600>>, <<GL_MAX_TEXTURE_SIZE, GL_MAX_TEXTURE_SIZE + 1>>,
      <<INT_MAX - 7, INT_MAX - 6>>, <<INT_MAX, 1>> }

\* what compile_shader meets: the file cannot be loaded, it does not compile, it compiles
CompileOutcomes == {"noload", "nocompile", "ok"}

\* what one create or reload call meets at each of its steps; a step the call
\* does not reach (after an earlier failure, or of the other variant) is left "ok"
Outcomes(v) ==
    { o \in [alloc : BOOLEAN, comp : CompileOutcomes, clink : BOOLEAN,
             vert : CompileOutcomes, frag : CompileOutcomes, link : BOOLEAN] :
        LET compOk == o.comp = "ok" /\ o.clink
            stagesOk == o.vert = "ok" /\ o.frag = "ok"
        IN  /\ ~o.alloc => (compOk /\ stagesOk /\ o.link)
            /\ v = "direct" => compOk
            /\ o.comp # "ok" => (o.clink /\ stagesOk /\ o.link)
            /\ ~o.clink => (stagesOk /\ o.link)
            /\ ~stagesOk => o.link }

\* time_s values and camera pointers handed to draw
Times == {0, 1}
CamPtrs == {NULL, 1}

\* camera_update inputs: mouse deltas, frame time in ms, keys held
MouseDX == {-1000, 0, 1000}
MouseDY == {-800, -100, 0, 100, 800}
FrameMs == {0, 16}
KeySets == { {}, {"W"}, {"W", "S"}, {"D", "SPACE"}, {"A", "LSHIFT"} }
StartPitches == {-1570, -35, 0, 1570}

(***************************************************************************)
(* GL object bookkeeping.                                                  *)
(***************************************************************************)
Ids(S) == {o.id : o \in S}

\* glCreateShader and glCreateProgram draw names from one name space
NewName(G) ==
    CHOOSE n \in 1..(Cardinality(G.shaders) + Cardinality(G.programs) + 1) :
        /\ n \notin Ids(G.shaders) \cup Ids(G.programs)
        /\ \A m \in 1..(n - 1) : m \in Ids(G.shaders) \cup Ids(G.programs)

NewId(S) ==
    CHOOSE n \in 1..(Cardinality(S) + 1) :
        /\ n \notin S
        /\ \A m \in 1..(n - 1) : m \in S

glDeleteShader(G, shader) ==
    [G EXCEPT !.shaders = {s \in @ : s.id # shader}]

glDeleteProgram(G, prog) ==
    [G EXCEPT !.programs = {p \in @ : p.id # prog}]

ShaderType(G, shader) == (CHOOSE s \in G.shaders : s.id = shader).type

\* number of GL objects created and not yet deleted
Outstanding(G) ==
    Cardinality(G.shaders) + Cardinality(G.programs) + Cardinality(G.textures)
        + Cardinality(G.vaos) + Cardinality(G.buffers)

(***************************************************************************)
(* compile_shader: load the file, create the shader object, compile it.    *)
(* b is the number of the build the shader belongs to.                     *)
(***************************************************************************)
compile_shader(G, type, outcome, b) ==
    IF outcome = "noload"
    THEN [gl |-> G, ret |-> 0]
    ELSE LET shader == NewName(G)
             G1 == [G EXCEPT !.shaders = @ \cup {[id |-> shader, type |-> type, build |-> b]}]
         IN  IF outcome = "nocompile"
             THEN [gl |-> glDeleteShader(G1, shader), ret |-> 0]
             ELSE [gl |-> G1, ret |-> shader]

(***************************************************************************)
(* link_program / link_compute_program: the shaders are deleted whatever   *)
(* the link status; the program is deleted when the link fails.            *)
(***************************************************************************)
link_program(G, vert, frag, success, b) ==
    LET prog == NewName(G)
        G1 == [G EXCEPT !.programs = @ \cup
                  {[id |-> prog, linked |-> success, build |-> b,
                    stages |-> {ShaderType(G, vert), ShaderType(G, frag)}]}]
        G2 == glDeleteShader(glDeleteShader(G1, vert), frag)
    IN  IF ~success
        THEN [gl |-> glDeleteProgram(G2, prog), ret |-> 0]
        ELSE [gl |-> G2, ret |-> prog]

link_compute_program(G, comp, success, b) ==
    LET prog == NewName(G)
        G1 == [G EXCEPT !.programs = @ \cup
                  {[id |-> prog, linked |-> success, build |-> b,
                    stages |-> {ShaderType(G, comp)}]}]
        G2 == glDeleteShader(G1, comp)
    IN  IF ~success
        THEN [gl |-> glDeleteProgram(G2, prog), ret |-> 0]
        ELSE [gl |-> G2, ret |-> prog]

(***************************************************************************)
(* create_output_texture (compute variant): the old texture is deleted     *)
(* first; glTexStorage2D allocates storage only for dimensions it accepts  *)
(* and otherwise leaves the new texture without storage (0 x 0).           *)
(***************************************************************************)
TexStorageAccepted(width, height) ==
    /\ 1 <= width /\ width <= GL_MAX_TEXTURE_SIZE
    /\ 1 <= height /\ height <= GL_MAX_TEXTURE_SIZE

\* a create_output_texture that does not delete the texture it replaces
create_output_texture_leak(R, G) ==
    LET tex == NewId(Ids(G.textures))
        sto == IF TexStorageAccepted(R.width, R.height)
               THEN [id |-> tex, w |-> R.width, h |-> R.height]
               ELSE [id |-> tex, w |-> 0, h |-> 0]
    IN  [r |-> [R EXCEPT !.output_texture = tex],
         gl |-> [G EXCEPT !.textures = @ \cup {sto}]]

create_output_texture(R, G) ==
    LET G0 == IF R.output_texture # 0
              THEN [G EXCEPT !.textures = {t \in @ : t.id # R.output_texture}]
              ELSE G
        tex == NewId(Ids(G0.textures))
        sto == IF TexStorageAccepted(R.width, R.height)
               THEN [id |-> tex, w |-> R.width, h |-> R.height]
               ELSE [id |-> tex, w |-> 0, h |-> 0]
    IN  [r |-> [R EXCEPT !.output_texture = tex],
         gl |-> [G0 EXCEPT !.textures = @ \cup {sto}]]

\* the fullscreen quad: glGenVertexArrays, glGenBuffers
fullscreen_quad(R, G) ==
    LET a == NewId(G.vaos)
        v == NewId(G.buffers)
    IN  [r |-> [R EXCEPT !.vao = a, !.vbo = v, !.ok = TRUE],
         gl |-> [G EXCEPT !.vaos = @ \cup {a}, !.buffers = @ \cup {v}]]

(***************************************************************************)
(* gl_renderer_create.  o holds what each step of this call meets; H is    *)
(* the heap count; the result names the stage the call failed at.          *)
(***************************************************************************)
gl_renderer_create_direct(G, H, width, height, o, b) ==
    IF ~o.alloc
    THEN [ret |-> NULL, r |-> ZeroStruct, gl |-> G, heap |-> H, stage |-> "alloc"]
    ELSE
    LET R0 == [ZeroStruct EXCEPT !.width = width, !.height = height]
        v == compile_shader(G, "vertex", o.vert, b)
        f == compile_shader(v.gl, "fragment", o.frag, b)
    IN  IF v.ret = 0 \/ f.ret = 0
        THEN [ret |-> NULL, r |-> ZeroStruct, gl |-> f.gl, heap |-> H, stage |-> "compile"]
        ELSE
        LET l == link_program(f.gl, v.ret, f.ret, o.link, b)
        IN  IF l.ret = 0
            THEN [ret |-> NULL, r |-> ZeroStruct, gl |-> l.gl, heap |-> H, stage |-> "link"]
            ELSE
            LET q == fullscreen_quad([R0 EXCEPT !.program = l.ret], l.gl)
            IN  [ret |-> 1, r |-> q.r, gl |-> q.gl, heap |-> H + 1, stage |-> "none"]

gl_renderer_create_compute(G, H, width, height, o, b) ==
    IF ~o.alloc
    THEN [ret |-> NULL, r |-> ZeroStruct, gl |-> G, heap |-> H, stage |-> "alloc"]
    ELSE
    LET R0 == [ZeroStruct EXCEPT !.width = width, !.height = height]
        c == compile_shader(G, "compute", o.comp, b)
    IN  IF c.ret = 0
        THEN [ret |-> NULL, r |-> ZeroStruct, gl |-> c.gl, heap |-> H, stage |-> "comp"]
        ELSE
        LET cl == link_compute_program(c.gl, c.ret, o.clink, b)
        IN  IF cl.ret = 0
            THEN [ret |-> NULL, r |-> ZeroStruct, gl |-> cl.gl, heap |-> H, stage |-> "clink"]
            ELSE
            LET v == compile_shader(cl.gl, "vertex", o.vert, b)
                f == compile_shader(v.gl, "fragment", o.frag, b)
            IN  IF v.ret = 0 \/ f.ret = 0
                THEN [ret |-> NULL, r |-> ZeroStruct, gl |-> glDeleteProgram(f.gl, cl.ret),
                      heap |-> H, stage |-> "compile"]
                ELSE
                LET l == link_program(f.gl, v.ret, f.ret, o.link, b)
                IN  IF l.ret = 0
                    THEN [ret |-> NULL, r |-> ZeroStruct,
                          gl |-> glDeleteProgram(l.gl, cl.ret),
                          heap |-> H, stage |-> "link"]
                    ELSE
                    LET t == create_output_texture(
                                 [R0 EXCEPT !.compute_program = cl.ret,
                                            !.display_program = l.ret], l.gl)
                        q == fullscreen_quad(t.r, t.gl)
                    IN  [ret |-> 1, r |-> q.r, gl |-> q.gl, heap |-> H + 1,
                         stage |-> "none"]

(***************************************************************************)
(* gl_renderer_destroy.  glDelete* of the name 0 is skipped by the code.   *)
(***************************************************************************)
gl_renderer_destroy_direct(ptr, R, G, H) ==
    IF ptr = NULL
    THEN [r |-> R, gl |-> G, heap |-> H]
    ELSE [r |-> ZeroStruct,
          gl |-> [G EXCEPT !.vaos = @ \ {R.vao},
                           !.buffers = @ \ {R.vbo},
                           !.programs = {p \in @ : p.id # R.program}],
          heap |-> H - 1]

gl_renderer_destroy_compute(ptr, R, G, H) ==
    IF ptr = NULL
    THEN [r |-> R, gl |-> G, heap |-> H]
    ELSE [r |-> ZeroStruct,
          gl |-> [G EXCEPT !.vaos = @ \ {R.vao},
                           !.buffers = @ \ {R.vbo},
                           !.textures = {t \in @ : t.id # R.output_texture},
                           !.programs = {p \in @ : p.id \notin
                                            {R.compute_program, R.display_program}}],
          heap |-> H - 1]

(***************************************************************************)
(* gl_renderer_resize.                                                     *)
(***************************************************************************)
gl_renderer_resize_direct(ptr, R, G, width, height) ==
    IF ptr = NULL
    THEN [r |-> R, gl |-> G]
    ELSE [r |-> [R EXCEPT !.width = width, !.height = height], gl |-> G]

\* a resize that keeps the old size when the texture storage is refused
resize_compute_keep_on_refusal(ptr, R, G, width, height) ==
    IF ptr = NULL \/ ~TexStorageAccepted(width, height)
    THEN [r |-> R, gl |-> G]
    ELSE create_output_texture([R EXCEPT !.width = width, !.height = height], G)

gl_renderer_resize_compute(ptr, R, G, width, height) ==
    IF ptr = NULL
    THEN [r |-> R, gl |-> G]
    ELSE create_output_texture([R EXCEPT !.width = width, !.height = height], G)

gl_renderer_ok(ptr, R) == ptr # NULL /\ R.ok

(***************************************************************************)
(* gl_renderer_reload_shaders.  The result carries the return value, the   *)
(* struct, the GL objects and the stage the call failed at.                *)
(***************************************************************************)
\* a reload that deletes the active program before the new one has linked
reload_direct_delete_first(ptr, R, G, o, b) ==
    IF ptr = NULL \/ ~R.ok
    THEN [ret |-> FALSE, r |-> R, gl |-> G, stage |-> "notready"]
    ELSE
    LET G0 == glDeleteProgram(G, R.program)
        v == compile_shader(G0, "vertex", o.vert, b)
        f == compile_shader(v.gl, "fragment", o.frag, b)
    IN  IF v.ret = 0 \/ f.ret = 0
        THEN [ret |-> FALSE, r |-> R, gl |-> f.gl, stage |-> "compile"]
        ELSE
        LET l == link_program(f.gl, v.ret, f.ret, o.link, b)
        IN  IF l.ret = 0
            THEN [ret |-> FALSE, r |-> R, gl |-> l.gl, stage |-> "link"]
            ELSE [ret |-> TRUE, r |-> [R EXCEPT !.program = l.ret], gl |-> l.gl,
                  stage |-> "none"]

\* a reload that marks the renderer not ok when the new program does not link
reload_direct_failed_link_clears_ok(ptr, R, G, o, b) ==
    IF ptr = NULL \/ ~R.ok
    THEN [ret |-> FALSE, r |-> R, gl |-> G, stage |-> "notready"]
    ELSE
    LET v == compile_shader(G, "vertex", o.vert, b)
        f == compile_shader(v.gl, "fragment", o.frag, b)
    IN  IF v.ret = 0 \/ f.ret = 0
        THEN [ret |-> FALSE, r |-> R, gl |-> f.gl, stage |-> "compile"]
        ELSE
        LET l == link_program(f.gl, v.ret, f.ret, o.link, b)
        IN  IF l.ret = 0
            THEN [ret |-> FALSE, r |-> [R EXCEPT !.ok = FALSE], gl |-> l.gl,
                  stage |-> "link"]
            ELSE [ret |-> TRUE,
                  r |-> [R EXCEPT !.program = l.ret],
                  gl |-> glDeleteProgram(l.gl, R.program),
                  stage |-> "none"]

gl_renderer_reload_shaders_direct(ptr, R, G, o, b) ==
    IF ptr = NULL \/ ~R.ok
    THEN [ret |-> FALSE, r |-> R, gl |-> G, stage |-> "notready"]
    ELSE
    LET v == compile_shader(G, "vertex", o.vert, b)
        f == compile_shader(v.gl, "fragment", o.frag, b)
    IN  IF v.ret = 0 \/ f.ret = 0
        THEN [ret |-> FALSE, r |-> R, gl |-> f.gl, stage |-> "compile"]
        ELSE
        LET l == link_program(f.gl, v.ret, f.ret, o.link, b)
        IN  IF l.ret = 0
            THEN [ret |-> FALSE, r |-> R, gl |-> l.gl, stage |-> "link"]
            ELSE [ret |-> TRUE,
                  r |-> [R EXCEPT !.program = l.ret],
                  gl |-> glDeleteProgram(l.gl, R.program),
                  stage |-> "none"]

\* a reload that installs the compute program as soon as it has linked
reload_compute_partial_swap(ptr, R, G, o, b) ==
    IF ptr = NULL \/ ~R.ok
    THEN [ret |-> FALSE, r |-> R, gl |-> G, stage |-> "notready"]
    ELSE
    LET c == compile_shader(G, "compute", o.comp, b)
    IN  IF c.ret = 0
        THEN [ret |-> FALSE, r |-> R, gl |-> c.gl, stage |-> "comp"]
        ELSE
        LET cl == link_compute_program(c.gl, c.ret, o.clink, b)
        IN  IF cl.ret = 0
            THEN [ret |-> FALSE, r |-> R, gl |-> cl.gl, stage |-> "clink"]
            ELSE
            LET R1 == [R EXCEPT !.compute_program = cl.ret]
                G1 == glDeleteProgram(cl.gl, R.compute_program)
                v == compile_shader(G1, "vertex", o.vert, b)
                f == compile_shader(v.gl, "fragment", o.frag, b)
            IN  IF v.ret = 0 \/ f.ret = 0
                THEN [ret |-> FALSE, r |-> R1, gl |-> f.gl, stage |-> "compile"]
                ELSE
                LET l == link_program(f.gl, v.ret, f.ret, o.link, b)
                IN  IF l.ret = 0
                    THEN [ret |-> FALSE, r |-> R1, gl |-> l.gl, stage |-> "link"]
                    ELSE [ret |-> TRUE,
                          r |-> [R1 EXCEPT !.display_program = l.ret],
                          gl |-> glDeleteProgram(l.gl, R.display_program),
                          stage |-> "none"]

\* a reload that forgets to delete the old display program
reload_compute_keep_old_display(ptr, R, G, o, b) ==
    IF ptr = NULL \/ ~R.ok
    THEN [ret |-> FALSE, r |-> R, gl |-> G, stage |-> "notready"]
    ELSE
    LET c == compile_shader(G, "compute", o.comp, b)
    IN  IF c.ret = 0
        THEN [ret |-> FALSE, r |-> R, gl |-> c.gl, stage |-> "comp"]
        ELSE
        LET cl == link_compute_program(c.gl, c.ret, o.clink, b)
        IN  IF cl.ret = 0
            THEN [ret |-> FALSE, r |-> R, gl |-> cl.gl, stage |-> "clink"]
            ELSE
            LET v == compile_shader(cl.gl, "vertex", o.vert, b)
                f == compile_shader(v.gl, "fragment", o.frag, b)
            IN  IF v.ret = 0 \/ f.ret = 0
                THEN [ret |-> FALSE, r |-> R, gl |-> glDeleteProgram(f.gl, cl.ret),
                      stage |-> "compile"]
                ELSE
                LET l == link_program(f.gl, v.ret, f.ret, o.link, b)
                IN  IF l.ret = 0
                    THEN [ret |-> FALSE, r |-> R, gl |-> glDeleteProgram(l.gl, cl.ret),
                          stage |-> "link"]
                    ELSE [ret |-> TRUE,
                          r |-> [R EXCEPT !.compute_program = cl.ret,
                                          !.display_program = l.ret],
                          gl |-> glDeleteProgram(l.gl, R.compute_program),
                          stage |-> "none"]

gl_renderer_reload_shaders_compute(ptr, R, G, o, b) ==
    IF ptr = NULL \/ ~R.ok
    THEN [ret |-> FALSE, r |-> R, gl |-> G, stage |-> "notready"]
    ELSE
    LET c == compile_shader(G, "compute", o.comp, b)
    IN  IF c.ret = 0
        THEN [ret |-> FALSE, r |-> R, gl |-> c.gl, stage |-> "comp"]
        ELSE
        LET cl == link_compute_program(c.gl, c.ret, o.clink, b)
        IN  IF cl.ret = 0
            THEN [ret |-> FALSE, r |-> R, gl |-> cl.gl, stage |-> "clink"]
            ELSE
            LET v == compile_shader(cl.gl, "vertex", o.vert, b)
                f == compile_shader(v.gl, "fragment", o.frag, b)
            IN  IF v.ret = 0 \/ f.ret = 0
                THEN [ret |-> FALSE, r |-> R, gl |-> glDeleteProgram(f.gl, cl.ret),
                      stage |-> "compile"]
                ELSE
                LET l == link_program(f.gl, v.ret, f.ret, o.link, b)
                IN  IF l.ret = 0
                    THEN [ret |-> FALSE, r |-> R, gl |-> glDeleteProgram(l.gl, cl.ret),
                          stage |-> "link"]
                    ELSE [ret |-> TRUE,
                          r |-> [R EXCEPT !.compute_program = cl.ret,
                                          !.display_program = l.ret],
                          gl |-> glDeleteProgram(
                                     glDeleteProgram(l.gl, R.compute_program),
                                     R.display_program),
                          stage |-> "none"]

(***************************************************************************)
(* camera_basis: forward/right/up from yaw and pitch.  The trigonometry is *)
(* not evaluated; the vectors are named by the angles they are built from. *)
(***************************************************************************)
camera_basis(y, p) ==
    [fwd |-> <<"fwd", y, p>>, right |-> <<"right", y, p>>, up |-> <<"up", y, p>>]

\* the uniforms set from the camera, on program prog (nothing for a NULL camera)
camera_uniforms(prog, cam, y, p) ==
    IF cam = NULL
    THEN << >>
    ELSE << [cmd |-> "uniform", prog |-> prog, name |-> "u_camera_pos", val |-> <<"pos", cam>>],
            [cmd |-> "uniform", prog |-> prog, name |-> "u_camera_forward",
             val |-> camera_basis(y, p).fwd],
            [cmd |-> "uniform", prog |-> prog, name |-> "u_camera_right",
             val |-> camera_basis(y, p).right],
            [cmd |-> "uniform", prog |-> prog, name |-> "u_camera_up",
             val |-> camera_basis(y, p).up] >>

\* C integer division truncates toward zero
CDiv(a, d) == IF a >= 0 \/ a % d = 0 THEN a \div d ELSE (a \div d) + 1

(***************************************************************************)
(* (n + 7) / 8 in int arithmetic.  For n > INT_MAX - 7 the addition        *)
(* overflows, which is undefined: a build either wraps the sum modulo 2^32 *)
(* or computes the quotient in a wider register.                           *)
(***************************************************************************)
\* a group count that rounds down: n / 8
num_groups_round_down(n) == {CDiv(n, 8)}

num_groups(n) ==
    IF n <= INT_MAX - 7
    THEN {CDiv(n + 7, 8)}
    ELSE {CDiv(((n - INT_MAX) + 5) - INT_MAX, 8),
          (n \div 8) + (IF n % 8 = 0 THEN 0 ELSE 1)}

(***************************************************************************)
(* gl_renderer_draw: the GL commands one call issues, in order.            *)
(***************************************************************************)
\* a draw without the NULL / ok check
draw_direct_unguarded(ptr, R, time_s, cam, y, p) ==
    << [cmd |-> "clear"],
       [cmd |-> "use_program", prog |-> R.program],
       [cmd |-> "uniform", prog |-> R.program, name |-> "u_resolution",
        val |-> <<R.width, R.height>>],
       [cmd |-> "uniform", prog |-> R.program, name |-> "u_time", val |-> time_s] >>
    \o camera_uniforms(R.program, cam, y, p)
    \o << [cmd |-> "viewport", w |-> R.width, h |-> R.height],
          [cmd |-> "bind_vertex_array", vao |-> R.vao],
          [cmd |-> "draw_arrays"],
          [cmd |-> "bind_vertex_array", vao |-> 0] >>

gl_renderer_draw_direct(ptr, R, time_s, cam, y, p) ==
    IF ptr = NULL \/ ~R.ok
    THEN << >>
    ELSE << [cmd |-> "clear"],
            [cmd |-> "use_program", prog |-> R.program],
            [cmd |-> "uniform", prog |-> R.program, name |-> "u_resolution",
             val |-> <<R.width, R.height>>],
            [cmd |-> "uniform", prog |-> R.program, name |-> "u_time", val |-> time_s] >>
         \o camera_uniforms(R.program, cam, y, p)
         \o << [cmd |-> "viewport", w |-> R.width, h |-> R.height],
               [cmd |-> "bind_vertex_array", vao |-> R.vao],
               [cmd |-> "draw_arrays"],
               [cmd |-> "bind_vertex_array", vao |-> 0] >>

gl_renderer_draw_compute(ptr, R, time_s, cam, y, p, gx, gy) ==
    IF ptr = NULL \/ ~R.ok
    THEN << >>
    ELSE << [cmd |-> "use_program", prog |-> R.compute_program],
            [cmd |-> "uniform", prog |-> R.compute_program, name |-> "u_resolution",
             val |-> <<R.width, R.height>>],
            [cmd |-> "uniform", prog |-> R.compute_program, name |-> "u_time",
             val |-> time_s] >>
         \o camera_uniforms(R.compute_program, cam, y, p)
         \o << [cmd |-> "bind_image_texture", tex |-> R.output_texture],
               [cmd |-> "dispatch", gx |-> gx, gy |-> gy],
               [cmd |-> "barrier", bits |-> {"SHADER_IMAGE_ACCESS"}],
               [cmd |-> "clear"],
               [cmd |-> "use_program", prog |-> R.display_program],
               [cmd |-> "bind_texture", tex |-> R.output_texture],
               [cmd |-> "uniform", prog |-> R.display_program, name |-> "u_image", val |-> 0],
               [cmd |-> "viewport", w |-> R.width, h |-> R.height],
               [cmd |-> "bind_vertex_array", vao |-> R.vao],
               [cmd |-> "draw_arrays"],
               [cmd |-> "bind_vertex_array", vao |-> 0] >>

(***************************************************************************)
(* The GL context executing a command list.  A dispatch writes the texture *)
(* bound as image: until a barrier names a kind of access, accesses of     *)
(* that kind may not see the writes.  A draw call with a texture bound to  *)
(* the sampler reads it by texture fetch.                                  *)
(***************************************************************************)
AccessKinds == {"SHADER_IMAGE_ACCESS", "TEXTURE_FETCH"}

ExecOne(c, x) ==
    CASE c.cmd = "use_program" -> [x EXCEPT !.prog = c.prog]
      [] c.cmd = "bind_image_texture" -> [x EXCEPT !.img = c.tex]
      [] c.cmd = "bind_texture" -> [x EXCEPT !.tex = c.tex]
      [] c.cmd = "dispatch" ->
            IF x.img # 0 THEN [x EXCEPT !.incoherent = AccessKinds] ELSE x
      [] c.cmd = "barrier" -> [x EXCEPT !.incoherent = @ \ c.bits]
      [] c.cmd = "draw_arrays" ->
            IF x.tex # 0 /\ "TEXTURE_FETCH" \in x.incoherent
            THEN [x EXCEPT !.race = TRUE]
            ELSE x
      [] OTHER -> x

RECURSIVE Exec(_, _)
Exec(cs, x) == IF cs = << >> THEN x ELSE Exec(Tail(cs), ExecOne(Head(cs), x))

Context(inc, rc) == [prog |-> 0, img |-> 0, tex |-> 0, incoherent |-> inc, race |-> rc]

(***************************************************************************)
(* The renderer's operations as the host calls them.                       *)
(***************************************************************************)
\* the variables of the shader evaluations and of the renderer pair, at rest
IdleShader ==
    /\ opv = [op |-> "none"]
    /\ mr = [pc |-> "none"]
    /\ sw = [pc |-> "none"]

IdleTwin == twin = [pc |-> "none"]

Init ==
    /\ IdleShader
    /\ IdleTwin
    /\ variant \in {"direct", "compute"}
    /\ renderer = NULL
    /\ r = ZeroStruct
    /\ heap = 0
    /\ gl = EmptyGL
    /\ cmds = << >>
    /\ incoherent = {}
    /\ race = FALSE
    /\ last = [op |-> "init", ret |-> "void", stage |-> "none", nobj |-> 0]
    /\ base = 0
    /\ req = <<0, 0>>
    /\ nbuild = 0
    /\ yaw = 0
    /\ pitch = 0
    /\ upd = [dx |-> 0, dy |-> 0, moved |-> FALSE]

Create ==
    /\ renderer = NULL
    /\ nbuild < MaxBuilds
    /\ \E d \in DimPairs, o \in Outcomes(variant) :
          LET res == IF variant = "direct"
                     THEN gl_renderer_create_direct(gl, heap, d[1], d[2], o, nbuild + 1)
                     ELSE gl_renderer_create_compute(gl, heap, d[1], d[2], o, nbuild + 1)
          IN  /\ renderer' = res.ret
              /\ r' = res.r
              /\ gl' = res.gl
              /\ heap' = res.heap
              /\ last' = [op |-> "create",
                          ret |-> IF res.ret = NULL THEN "NULL" ELSE "handle",
                          stage |-> res.stage, nobj |-> Outstanding(gl)]
              /\ base' = IF res.ret = NULL THEN base ELSE Outstanding(gl)
              /\ req' = IF res.ret = NULL THEN req ELSE d
    /\ nbuild' = nbuild + 1
    /\ cmds' = << >>
    /\ incoherent' = {}
    /\ race' = FALSE
    /\ UNCHANGED <<variant, notRendererVars>>

Destroy ==
    /\ LET res == IF variant = "direct"
                  THEN gl_renderer_destroy_direct(renderer, r, gl, heap)
                  ELSE gl_renderer_destroy_compute(renderer, r, gl, heap)
       IN  /\ r' = res.r
           /\ gl' = res.gl
           /\ heap' = res.heap
    /\ renderer' = NULL
    /\ last' = [op |-> "destroy", ret |-> IF renderer = NULL THEN "void" ELSE "freed",
                stage |-> "none", nobj |-> Outstanding(gl)]
    /\ cmds' = << >>
    /\ incoherent' = IF renderer = NULL THEN incoherent ELSE {}
    /\ race' = FALSE
    /\ UNCHANGED <<variant, base, req, nbuild, notRendererVars>>

Draw ==
    /\ \E t \in Times, cam \in CamPtrs,
          gx \in num_groups(r.width), gy \in num_groups(r.height) :
          LET cs == IF variant = "direct"
                    THEN gl_renderer_draw_direct(renderer, r, t, cam, yaw, pitch)
                    ELSE gl_renderer_draw_compute(renderer, r, t, cam, yaw, pitch, gx, gy)
              x == Exec(cs, Context(incoherent, FALSE))
          IN  /\ cmds' = cs
              /\ incoherent' = x.incoherent
              /\ race' = x.race
    /\ last' = [op |-> "draw", ret |-> "void", stage |-> "none", nobj |-> Outstanding(gl)]
    /\ UNCHANGED <<variant, renderer, r, heap, gl, base, req, nbuild, notRendererVars>>

Resize ==
    /\ \E d \in DimPairs :
          LET res == IF variant = "direct"
                     THEN gl_renderer_resize_direct(renderer, r, gl, d[1], d[2])
                     ELSE gl_renderer_resize_compute(renderer, r, gl, d[1], d[2])
          IN  /\ r' = res.r
              /\ gl' = res.gl
              /\ req' = IF renderer = NULL THEN req ELSE d
    /\ last' = [op |-> "resize", ret |-> "void", stage |-> "none", nobj |-> Outstanding(gl)]
    /\ cmds' = << >>
    /\ incoherent' = IF renderer = NULL \/ variant = "direct" THEN incoherent ELSE {}
    /\ race' = FALSE
    /\ UNCHANGED <<variant, renderer, heap, base, nbuild, notRendererVars>>

Reload ==
    /\ nbuild < MaxBuilds
    /\ \E o \in {x \in Outcomes(variant) : x.alloc} :
          LET res == IF variant = "direct"
                     THEN gl_renderer_reload_shaders_direct(renderer, r, gl, o, nbuild + 1)
                     ELSE gl_renderer_reload_shaders_compute(renderer, r, gl, o, nbuild + 1)
          IN  /\ r' = res.r
              /\ gl' = res.gl
              /\ last' = [op |-> "reload", ret |-> IF res.ret THEN "true" ELSE "false",
                          stage |-> res.stage, nobj |-> Outstanding(gl)]
              /\ nbuild' = IF res.stage = "notready" THEN nbuild ELSE nbuild + 1
    /\ cmds' = << >>
    /\ race' = FALSE
    /\ UNCHANGED <<variant, renderer, heap, incoherent, base, req, notRendererVars>>

Next == Create \/ Destroy \/ Draw \/ Resize \/ Reload

Spec == Init /\ [][Next]_vars

(***************************************************************************)
(* camera_update (main.c).  Angles are in milliradians, so that the        *)
(* sensitivity 0.002 and the clamp 1.57 are whole numbers.  The position   *)
(* arithmetic is trigonometric and is kept only as "pos changed": the      *)
(* summed direction is non-zero exactly when some axis has one of its two  *)
(* keys held, and the step length is CAMERA_SPEED * dt.                    *)
(***************************************************************************)
\* a clamp that forgets the lower limit
clamp_pitch_upper_only(p) == IF p > PITCH_LIMIT THEN PITCH_LIMIT ELSE p

clamp_pitch(p) ==
    IF p > PITCH_LIMIT THEN PITCH_LIMIT
    ELSE IF p < -PITCH_LIMIT THEN -PITCH_LIMIT
    ELSE p

pos_changes(dt, keys) ==
    /\ dt > 0
    /\ \/ ("W" \in keys) # ("S" \in keys)
       \/ ("D" \in keys) # ("A" \in keys)
       \/ ("SPACE" \in keys) # ("LSHIFT" \in keys)

camera_update(dt, keys, mouse_dx, mouse_dy) ==
    /\ yaw' = yaw + mouse_dx * MOUSE_SENSITIVITY
    /\ pitch' = clamp_pitch(pitch - mouse_dy * MOUSE_SENSITIVITY)
    /\ upd' = [dx |-> mouse_dx, dy |-> mouse_dy, moved |-> pos_changes(dt, keys)]

CameraUpdate ==
    /\ \E dt \in FrameMs, keys \in KeySets, mouse_dx \in MouseDX, mouse_dy \in MouseDY :
          /\ yaw + mouse_dx * MOUSE_SENSITIVITY <= MaxYaw * 1000
          /\ yaw + mouse_dx * MOUSE_SENSITIVITY >= -(MaxYaw * 1000)
          /\ camera_update(dt, keys, mouse_dx, mouse_dy)
    /\ UNCHANGED notCameraVars

InitCamera ==
    /\ IdleShader
    /\ IdleTwin
    /\ variant = "direct"
    /\ renderer = NULL
    /\ r = ZeroStruct
    /\ heap = 0
    /\ gl = EmptyGL
    /\ cmds = << >>
    /\ incoherent = {}
    /\ race = FALSE
    /\ last = [op |-> "init", ret |-> "void", stage |-> "none", nobj |-> 0]
    /\ base = 0
    /\ req = <<0, 0>>
    /\ nbuild = 0
    /\ yaw = 0
    /\ pitch \in StartPitches
    /\ upd = [dx |-> 0, dy |-> 0, moved |-> FALSE]

NextCamera == CameraUpdate

SpecCamera == InitCamera /\ [][NextCamera]_vars

(***************************************************************************)
(* Vocabulary of the properties.                                           *)
(***************************************************************************)
\* the program handles the renderer draws with
ActivePrograms(v, R) ==
    IF v = "direct" THEN {R.program} ELSE {R.compute_program, R.display_program}

\* the outstanding program object named prog, if any
ProgramObjects(G, prog) == {p \in G.programs : p.id = prog}

\* a handle that names an outstanding, linked program
LiveLinked(G, prog) == \E p \in ProgramObjects(G, prog) : p.linked

\* the programs a command list makes current
UsedPrograms(cs) == {cs[i].prog : i \in {j \in DOMAIN cs : cs[j].cmd = "use_program"}}

\* the program current when command i of cs executes (0: none)
CurrentProgAt(cs, i) ==
    LET us == {j \in 1..(i - 1) : cs[j].cmd = "use_program"}
    IN  IF us = {} THEN 0 ELSE cs[CHOOSE j \in us : \A k \in us : k <= j].prog

Positions(cs, c) == {i \in DOMAIN cs : cs[i].cmd = c}

Ready == gl_renderer_ok(renderer, r)

(***************************************************************************)
(* C1: a reload that returns false, whatever stage failed and in either    *)
(* variant, leaves the renderer's fields, hence its active program         *)
(* handles, exactly as they were, and the programs they name are still     *)
(* outstanding and linked; a draw makes current exactly the handles the    *)
(* renderer holds, so later draws use the pre-reload program set.          *)
(***************************************************************************)
C1_FailedReloadKeepsPrograms ==
    [][ /\ (last'.op = "reload" /\ last'.ret = "false") =>
              /\ r' = r
              /\ renderer' = renderer
              /\ Ready => \A h \in ActivePrograms(variant, r') : LiveLinked(gl', h)
        /\ (last'.op = "draw" /\ Ready) =>
              UsedPrograms(cmds') = ActivePrograms(variant, r)
      ]_vars

\* a reload of the compute+blit renderer failed at its last step, the display link
C1_Witness ==
    /\ variant = "compute"
    /\ Ready
    /\ last.op = "reload" /\ last.ret = "false" /\ last.stage = "link"

(***************************************************************************)
(* C2: in the compute+blit variant the two active handles always name      *)
(* outstanding, linked programs of one and the same build, a compute       *)
(* program and a vertex+fragment program; and the program current at the   *)
(* dispatch and the program current at the blit of any draw are of one     *)
(* build.                                                                  *)
(***************************************************************************)
C2_ProgramsFromOneBuild ==
    variant = "compute" =>
        /\ Ready =>
              \E pc \in ProgramObjects(gl, r.compute_program),
                 pd \in ProgramObjects(gl, r.display_program) :
                  /\ pc.linked /\ pd.linked
                  /\ pc.build = pd.build
                  /\ pc.stages = {"compute"}
                  /\ pd.stages = {"vertex", "fragment"}
        /\ \A i \in Positions(cmds, "dispatch"), k \in Positions(cmds, "draw_arrays") :
              \E pc \in ProgramObjects(gl, CurrentProgAt(cmds, i)),
                 pd \in ProgramObjects(gl, CurrentProgAt(cmds, k)) :
                  /\ pc.linked /\ pd.linked
                  /\ pc.build = pd.build

\* a draw with the programs of a successful reload, after a later reload failed
C2_Witness ==
    /\ variant = "compute"
    /\ Ready
    /\ last.op = "draw" /\ cmds # << >>
    /\ \E pc \in ProgramObjects(gl, r.compute_program) : pc.build = 2
    /\ nbuild = 3

(***************************************************************************)
(* C3: a create that returns NULL has released every GL object and the     *)
(* host allocation it made: as many GL objects are outstanding after the   *)
(* call as before it, and no struct is left allocated.                     *)
(***************************************************************************)
C3_FailedCreateReleasesAll ==
    (last.op = "create" /\ last.ret = "NULL") =>
        /\ Outstanding(gl) = last.nobj
        /\ heap = 0
        /\ renderer = NULL

(***************************************************************************)
(* C4: a reload that returns true makes programs of the new build the      *)
(* active set and deletes the programs that were active, and the renderer  *)
(* owns 1 (direct) or 2 (compute+blit) outstanding programs before and     *)
(* after it, however many reloads succeeded.                               *)
(***************************************************************************)
NumPrograms(v) == IF v = "direct" THEN 1 ELSE 2

C4_SuccessfulReloadSwaps ==
    [][ /\ (last'.op = "reload" /\ last'.ret = "true") =>
              /\ ActivePrograms(variant, r') \cap ActivePrograms(variant, r) = {}
              /\ ActivePrograms(variant, r) \cap Ids(gl'.programs) = {}
              /\ \A h \in ActivePrograms(variant, r') :
                    \E p \in ProgramObjects(gl', h) : p.linked /\ p.build = nbuild'
              /\ Cardinality(gl.programs) = NumPrograms(variant)
        /\ Ready' =>
              /\ Cardinality(gl'.programs) = NumPrograms(variant)
              /\ Ids(gl'.programs) = ActivePrograms(variant, r')
      ]_vars

\* the second successful reload of a compute+blit renderer
C4_Witness ==
    /\ variant = "compute"
    /\ last.op = "reload" /\ last.ret = "true"
    /\ nbuild = 3
    /\ \A p \in gl.programs : p.build = 3

(***************************************************************************)
(* C5 as stated: the stored dimensions are those of the most recent        *)
(* create/resize; in the compute+blit variant the renderer owns exactly    *)
(* one outstanding texture, its output texture, whose dimensions equal the *)
(* stored dimensions.                                                      *)
(***************************************************************************)
OneOutputTexture ==
    /\ Cardinality(gl.textures) = IF renderer # NULL /\ variant = "compute" THEN 1 ELSE 0
    /\ (renderer # NULL /\ variant = "compute") => Ids(gl.textures) = {r.output_texture}

C5_Original ==
    /\ renderer # NULL => <<r.width, r.height>> = req
    /\ OneOutputTexture
    /\ (renderer # NULL /\ variant = "compute") =>
          \A t \in gl.textures : <<t.w, t.h>> = <<r.width, r.height>>

(***************************************************************************)
(* C5 amended: as C5, with the texture's dimensions equal to the stored    *)
(* dimensions when both stored dimensions lie in 1..GL_MAX_TEXTURE_SIZE;   *)
(* for other dimensions glTexStorage2D allocates nothing and the one       *)
(* output texture has no storage.                                          *)
(***************************************************************************)
C5_ResizeRoundTrip ==
    /\ renderer # NULL => <<r.width, r.height>> = req
    /\ OneOutputTexture
    /\ (renderer # NULL /\ variant = "compute") =>
          \A t \in gl.textures :
              <<t.w, t.h>> =
                  IF /\ 1 <= req[1] /\ req[1] <= 16384
                     /\ 1 <= req[2] /\ req[2] <= 16384
                  THEN req
                  ELSE <<0, 0>>

\* a compute+blit renderer created at one size and resized to 9 x 7
C5_Witness ==
    /\ variant = "compute"
    /\ renderer # NULL
    /\ last.op = "resize"
    /\ req = <<9, 7>>
    /\ \E t \in gl.textures : t.id = r.output_texture /\ t.w = 9 /\ t.h = 7

(***************************************************************************)
(* C6: every draw of a Ready compute+blit renderer issues the dispatch,    *)
(* then a memory barrier, then the blit draw, the barrier naming the kind  *)
(* of access by which the blit reads the output texture (a texture fetch   *)
(* through the sampler u_image), so that no blit reads the texture while   *)
(* the dispatch's writes are not visible to it.                            *)
(***************************************************************************)
C6_BarrierCoversBlitRead ==
    (variant = "compute" /\ last.op = "draw" /\ Ready) =>
        /\ \E i \in Positions(cmds, "dispatch"), j \in Positions(cmds, "barrier"),
              k \in Positions(cmds, "draw_arrays") :
              /\ i < j /\ j < k
              /\ "TEXTURE_FETCH" \in cmds[j].bits
        /\ \A i \in Positions(cmds, "dispatch"), k \in Positions(cmds, "draw_arrays") :
              i < k => \E j \in Positions(cmds, "barrier") : i < j /\ j < k
        /\ ~race

(***************************************************************************)
(* C7: a draw on a NULL handle or on a renderer whose ok is false issues   *)
(* no GPU command and changes nothing of the renderer or of the GL state.  *)
(***************************************************************************)
C7_DrawNotReadyIsNoOp ==
    [][ (last'.op = "draw" /\ ~Ready) =>
            /\ cmds' = << >>
            /\ UNCHANGED <<renderer, r, heap, gl, incoherent>>
            /\ ~race'
      ]_vars

\* a draw on the NULL handle left by a destroyed renderer
C7_Witness ==
    /\ last.op = "draw"
    /\ renderer = NULL
    /\ nbuild >= 1
    /\ cmds = << >>

(***************************************************************************)
(* C8: destroy of a renderer releases every GL object its operations       *)
(* created, so that as many GL objects are outstanding as when its create  *)
(* was called, and frees the struct; destroy(NULL) changes nothing.        *)
(***************************************************************************)
C8_DestroyReleasesAll ==
    /\ (last.op = "destroy" /\ last.ret = "freed") =>
          /\ Outstanding(gl) = base
          /\ heap = 0
    /\ (last.op = "destroy" /\ last.ret = "void") => Outstanding(gl) = last.nobj

(***************************************************************************)
(* C9 as stated: for stored width w > 0 and height h > 0 the dispatch of a *)
(* draw has ceil(w/8) by ceil(h/8) groups: 8*gx >= w, 8*(gx-1) < w, and    *)
(* likewise for gy and h.  (8*g >= n is written (n-1) \div 8 < g, and      *)
(* 8*(g-1) < n is written g - 1 <= (n-1) \div 8.)                          *)
(***************************************************************************)
CoversTightly(g, n) == (n - 1) \div 8 < g /\ g - 1 <= (n - 1) \div 8

C9_Original ==
    (variant = "compute" /\ last.op = "draw" /\ Ready) =>
        \A i \in Positions(cmds, "dispatch") :
            /\ r.width > 0 => CoversTightly(cmds[i].gx, r.width)
            /\ r.height > 0 => CoversTightly(cmds[i].gy, r.height)

(***************************************************************************)
(* C9 amended: the same for stored dimensions from 1 to INT_MAX - 7; for a *)
(* larger dimension n the sum n + 7 overflows int.                         *)
(***************************************************************************)
C9_DispatchCoversTexture ==
    (variant = "compute" /\ last.op = "draw" /\ Ready) =>
        /\ Positions(cmds, "dispatch") # {}
        /\ \A i \in Positions(cmds, "dispatch") :
              /\ (0 < r.width /\ r.width <= 2147483640) =>
                    CoversTightly(cmds[i].gx, r.width)
              /\ (0 < r.height /\ r.height <= 2147483640) =>
                    CoversTightly(cmds[i].gy, r.height)

\* a draw at 9 x 7 dispatches 2 x 1 groups
C9_Witness ==
    /\ variant = "compute"
    /\ last.op = "draw" /\ Ready
    /\ r.width = 9 /\ r.height = 7
    /\ \E i \in Positions(cmds, "dispatch") : cmds[i].gx = 2 /\ cmds[i].gy = 1

(***************************************************************************)
(* C10: every camera_update leaves pitch in [-1.57, 1.57] (1570 mrad): the *)
(* new pitch is the old one minus mouse_dy * 0.002 (2 mrad per count),     *)
(* clamped; and yaw is the old yaw plus mouse_dx * 0.002, never clamped.   *)
(***************************************************************************)
C10_PitchClamped ==
    [][ LET target == pitch - upd'.dy * 2
        IN  /\ -1570 <= pitch' /\ pitch' <= 1570
            /\ (-1570 <= target /\ target <= 1570) => pitch' = target
            /\ target > 1570 => pitch' = 1570
            /\ target < -1570 => pitch' = -1570
            /\ yaw' = yaw + upd'.dx * 2
      ]_vars

\* pitch clamped at the lower limit while yaw is far beyond 1.57
C10_Witness ==
    /\ pitch = -1570
    /\ upd.dy = 800
    /\ yaw > 1570

\* ---------------------------------------------------------------------------
\* src/shaders/raymarch.frag: the SDF operators.
\*
\* A GLSL float is modelled by an exact rational [n, d] in lowest terms with
\* d > 0, so two floats are equal exactly when their records are equal.
\* Rounding is not modelled.
\* ---------------------------------------------------------------------------

RECURSIVE Gcd(_, _)
Gcd(a, b) == IF b = 0 THEN a ELSE Gcd(b, a % b)

IAbs(n) == IF n < 0 THEN 0 - n ELSE n

\* the float n/d (d # 0)
Rat(n, d) ==
    LET g == Gcd(IAbs(n), IAbs(d))
        sg == IF d < 0 THEN 0 - 1 ELSE 1
    IN  [n |-> (sg * n) \div g, d |-> (sg * d) \div g]

\* float arithmetic and comparison
fadd(x, y) == Rat(x.n * y.d + y.n * x.d, x.d * y.d)
fsub(x, y) == Rat(x.n * y.d - y.n * x.d, x.d * y.d)
fmul(x, y) == Rat(x.n * y.n, x.d * y.d)
fdiv(x, y) == Rat(x.n * y.d, x.d * y.n)
fneg(x) == [n |-> 0 - x.n, d |-> x.d]
flt(x, y) == x.n * y.d < y.n * x.d
fle(x, y) == x.n * y.d <= y.n * x.d

\* the GLSL built-ins the operators use
min(x, y) == IF flt(y, x) THEN y ELSE x
max(x, y) == IF flt(x, y) THEN y ELSE x
abs(x) == IF x.n < 0 THEN fneg(x) ELSE x
clamp(x, lo, hi) == min(max(x, lo), hi)
\* mix(x, y, t) = x * (1 - t) + y * t, on each channel of a vec3
mix(x, y, t) ==
    [i \in 1..3 |-> fadd(fmul(x[i], fsub(Rat(1, 1), t)), fmul(y[i], t))]

\* struct SDFHit { float d; vec3 color; }
SDFHit(d, color) == [d |-> d, color |-> color]

\* float overloads
opUnion(a, b) == min(a, b)

opSubtraction(a, b) == max(fneg(a), b)

opIntersection(a, b) == max(a, b)

opXor(a, b) == max(min(a, b), fneg(max(a, b)))

\* SDFHit overloads: they propagate the material colour
opUnion_min_keeps_a(a, b) == SDFHit(min(a.d, b.d), a.color)

opUnion_SDFHit(a, b) == IF flt(a.d, b.d) THEN a ELSE b

opSubtraction_SDFHit(a, b) == SDFHit(max(a.d, fneg(b.d)), a.color)

opIntersection_winner(a, b) == IF flt(a.d, b.d) THEN b ELSE a

opIntersection_SDFHit(a, b) == SDFHit(max(a.d, b.d), b.color)

opSmoothUnion_wide(a, b, k) ==
    LET k4 == fmul(k, Rat(4, 1))
        h == max(fsub(fmul(k4, Rat(2, 1)), abs(fsub(a, b))), Rat(0, 1))
    IN  fsub(min(a, b), fdiv(fmul(fmul(h, h), Rat(1, 4)), k4))

opSmoothUnion(a, b, k) ==
    LET k4 == fmul(k, Rat(4, 1))
        h == max(fsub(k4, abs(fsub(a, b))), Rat(0, 1))
    IN  fsub(min(a, b), fdiv(fmul(fmul(h, h), Rat(1, 4)), k4))

opSmoothSubtraction(a, b, k) == fneg(opSmoothUnion(a, fneg(b), k))

opSmoothIntersection(a, b, k) == fneg(opSmoothUnion(fneg(a), fneg(b), k))

\* the interpolation factor of the colour-blending smooth union
blend_t(a, b, k) ==
    LET k4 == fmul(k, Rat(4, 1))
    IN  clamp(fadd(Rat(1, 2), fdiv(fmul(Rat(1, 2), fsub(b.d, a.d)), k4)),
              Rat(0, 1), Rat(1, 1))

opSmoothUnion_SDFHit(a, b, k) ==
    LET k4 == fmul(k, Rat(4, 1))
        h == max(fsub(k4, abs(fsub(a.d, b.d))), Rat(0, 1))
        d == fsub(min(a.d, b.d), fdiv(fmul(fmul(h, h), Rat(1, 4)), k4))
        t == blend_t(a, b, k)
        col == mix(a.color, b.color, t)
    IN  SDFHit(d, col)

opSmoothSubtraction_SDFHit(a, b, k) ==
    LET neg_a == SDFHit(fneg(a.d), a.color)
        u == opSmoothUnion_SDFHit(neg_a, b, k)
    IN  SDFHit(fneg(u.d), a.color)

opSmoothIntersection_SDFHit(a, b, k) ==
    LET neg_a == SDFHit(fneg(a.d), a.color)
        neg_b == SDFHit(fneg(b.d), b.color)
        u == opSmoothUnion_SDFHit(neg_a, neg_b, k)
    IN  SDFHit(fneg(u.d), u.color)

\* ---------------------------------------------------------------------------
\* Evaluating the operators: the operands are drawn at the start, and each
\* action applies one operator (both overloads where there are two) to them.
\* ---------------------------------------------------------------------------

\* operand distances are the halves n/2 with |n| <= DistRange
DistRange == 3

Dists == {Rat(n, 2) : n \in (0 - DistRange)..DistRange}

\* the material colours of scene_sdf: plane, sphere, box
Colors == {<<Rat(7, 20), Rat(7, 20), Rat(2, 5)>>,
           <<Rat(1, 1), Rat(1, 4), Rat(1, 4)>>,
           <<Rat(1, 4), Rat(11, 20), Rat(1, 1)>>}

Hits == {SDFHit(d, c) : d \in Dists, c \in Colors}

\* blend radii: the 0.05 of scene_sdf, and two wider ones
BlendKs == {Rat(1, 20), Rat(1, 4), Rat(1, 2)}

\* the renderer and the camera, untouched while a shader function is evaluated
IdleRenderer ==
    /\ variant = "direct"
    /\ renderer = NULL
    /\ r = ZeroStruct
    /\ heap = 0
    /\ gl = EmptyGL
    /\ cmds = << >>
    /\ incoherent = {}
    /\ race = FALSE
    /\ last = [op |-> "init", ret |-> "void", stage |-> "none", nobj |-> 0]
    /\ base = 0
    /\ req = <<0, 0>>
    /\ nbuild = 0

IdleCamera ==
    /\ yaw = 0
    /\ pitch = 0
    /\ upd = [dx |-> 0, dy |-> 0, moved |-> FALSE]

InitOps ==
    /\ \E a \in Hits, b \in Hits, k \in BlendKs :
           opv = [op |-> "operands", a |-> a, b |-> b, k |-> k]
    /\ mr = [pc |-> "none"]
    /\ sw = [pc |-> "none"]
    /\ IdleTwin
    /\ IdleRenderer
    /\ IdleCamera

\* the result of applying an operator to the operands drawn: f is the float
\* overload's, hit the SDFHit overload's, fswap the float overload's on (b, a)
Applied(op, f, fswap, hit) ==
    /\ opv.op = "operands"
    /\ opv' = [opv EXCEPT !.op = op] @@ [f |-> f, fswap |-> fswap, hit |-> hit]
    /\ UNCHANGED <<rendererVars, cameraVars, mr, sw, twin>>

ApplyUnion ==
    Applied("opUnion", opUnion(opv.a.d, opv.b.d), opUnion(opv.b.d, opv.a.d),
            opUnion_SDFHit(opv.a, opv.b))

ApplySubtraction ==
    Applied("opSubtraction", opSubtraction(opv.a.d, opv.b.d),
            opSubtraction(opv.b.d, opv.a.d), opSubtraction_SDFHit(opv.a, opv.b))

ApplyIntersection ==
    Applied("opIntersection", opIntersection(opv.a.d, opv.b.d),
            opIntersection(opv.b.d, opv.a.d), opIntersection_SDFHit(opv.a, opv.b))

ApplySmoothUnion ==
    Applied("opSmoothUnion", opSmoothUnion(opv.a.d, opv.b.d, opv.k),
            opSmoothUnion(opv.b.d, opv.a.d, opv.k),
            opSmoothUnion_SDFHit(opv.a, opv.b, opv.k))

ApplySmoothSubtraction ==
    Applied("opSmoothSubtraction", opSmoothSubtraction(opv.a.d, opv.b.d, opv.k),
            opSmoothSubtraction(opv.b.d, opv.a.d, opv.k),
            opSmoothSubtraction_SDFHit(opv.a, opv.b, opv.k))

ApplySmoothIntersection ==
    Applied("opSmoothIntersection", opSmoothIntersection(opv.a.d, opv.b.d, opv.k),
            opSmoothIntersection(opv.b.d, opv.a.d, opv.k),
            opSmoothIntersection_SDFHit(opv.a, opv.b, opv.k))

NextOps ==
    \/ ApplyUnion
    \/ ApplySubtraction
    \/ ApplyIntersection
    \/ ApplySmoothUnion
    \/ ApplySmoothSubtraction
    \/ ApplySmoothIntersection

SpecOps == InitOps /\ [][NextOps]_vars

\* ---------------------------------------------------------------------------
\* Properties of the operators
\* ---------------------------------------------------------------------------

\* x is the smaller of a and b, and x is the larger of a and b
IsMin(x, a, b) == x \in {a, b} /\ fle(x, a) /\ fle(x, b)
IsMax(x, a, b) == x \in {a, b} /\ fle(a, x) /\ fle(b, x)

\* C11: union(a, b) returns the distance min(a.d, b.d) with the colour of the
\* operand whose distance is smaller, in both overloads, and the SDFHit result
\* is always one of the two operands as a whole, also when a.d = b.d.
C11_UnionPicksNearer ==
    opv.op = "opUnion" =>
        /\ IsMin(opv.hit.d, opv.a.d, opv.b.d)
        /\ opv.f = opv.hit.d
        /\ opv.hit \in {opv.a, opv.b}
        /\ flt(opv.a.d, opv.b.d) => opv.hit.color = opv.a.color
        /\ flt(opv.b.d, opv.a.d) => opv.hit.color = opv.b.color

\* a union of two operands at the same distance with different colours
C11_Witness ==
    /\ opv.op = "opUnion"
    /\ opv.a.d = opv.b.d
    /\ opv.a.color # opv.b.color
    /\ opv.hit \in {opv.a, opv.b}

\* C12: subtraction(a, b) carves b from a, distance max(a.d, -b.d) and a's
\* colour, for the SDFHit overload and for the float overload of the same name
\* and argument order alike.
C12_SubtractionCarvesB ==
    opv.op = "opSubtraction" =>
        /\ IsMax(opv.hit.d, opv.a.d, fneg(opv.b.d))
        /\ opv.hit.color = opv.a.color
        /\ IsMax(opv.f, opv.a.d, fneg(opv.b.d))

SmoothH(a, b, k) ==
    LET gap == IF flt(a, b) THEN fsub(b, a) ELSE fsub(a, b)
        room == fsub(fmul(Rat(4, 1), k), gap)
    IN  IF room.n > 0 THEN room ELSE Rat(0, 1)

\* C14: smooth union returns d with 16k * (min(a, b) - d) = h * h for
\* h = max(4k - |a - b|, 0); so d <= min(a, b), with equality exactly when
\* |a - b| >= 4k; d is the same for (b, a); and both overloads return it.
C14_SmoothUnionDistance ==
    opv.op = "opSmoothUnion" =>
        LET a == opv.a.d
            b == opv.b.d
            d == opv.hit.d
            m == IF flt(a, b) THEN a ELSE b
            h == SmoothH(a, b, opv.k)
        IN  /\ fmul(fmul(Rat(16, 1), opv.k), fsub(m, d)) = fmul(h, h)
            /\ fle(d, m)
            /\ (d = m) <=> (h.n = 0)
            /\ opv.f = d
            /\ opv.fswap = d

\* a smooth union strictly inside the blend region, and strictly below the minimum
C14_Witness ==
    /\ opv.op = "opSmoothUnion"
    /\ opv.a.d # opv.b.d
    /\ SmoothH(opv.a.d, opv.b.d, opv.k).n > 0
    /\ flt(opv.hit.d, opv.a.d)
    /\ flt(opv.hit.d, opv.b.d)

\* t = clamp(0.5 + 0.5 (y - x) / (4k), 0, 1) of the smooth minimum of x and y
SmoothT(x, y, k) ==
    LET raw == fadd(Rat(1, 2), fdiv(fsub(y, x), fmul(Rat(8, 1), k)))
    IN  IF raw.n < 0 THEN Rat(0, 1) ELSE IF flt(Rat(1, 1), raw) THEN Rat(1, 1) ELSE raw

\* the colour c is ca and cb mixed by t
Mixed(c, ca, cb, t) ==
    \A i \in 1..3 : c[i] = fadd(fmul(ca[i], fsub(Rat(1, 1), t)), fmul(cb[i], t))

\* C15: each smooth operator returns the operands' colours mixed by the factor
\* t of its underlying smooth minimum (of a, b for the union; of -a, b for the
\* subtraction; of -a, -b for the intersection), so inside the blend region,
\* where 0 < t < 1, the colour is neither operand's colour alone.
C15_SmoothColourBlends ==
    opv.op \in {"opSmoothUnion", "opSmoothSubtraction", "opSmoothIntersection"} =>
        LET x == IF opv.op = "opSmoothUnion" THEN opv.a.d ELSE fneg(opv.a.d)
            y == IF opv.op = "opSmoothIntersection" THEN fneg(opv.b.d) ELSE opv.b.d
            t == SmoothT(x, y, opv.k)
        IN  /\ Mixed(opv.hit.color, opv.a.color, opv.b.color, t)
            /\ (SmoothH(x, y, opv.k).n > 0 /\ opv.a.color # opv.b.color)
                   => opv.hit.color \notin {opv.a.color, opv.b.color}

\* ---------------------------------------------------------------------------
\* src/shaders/raymarch.frag: raymarch.
\*
\* A point of the ray origin + dist * dir is named by its ray distance dist
\* (dir has length 1), and a vector along the ray by its signed length.
\* ---------------------------------------------------------------------------

MAX_STEPS == 128
threshold == Rat(1, 1000)
max_dist == Rat(100, 1)
NORMAL_SAMPLES == 6

length(p) == abs(p)

sdf_sphere_diameter(p, radius) == fsub(length(p), fmul(Rat(2, 1), radius))

sdf_sphere(p, radius) == fsub(length(p), radius)

sdf_sphere_color(p, radius, color) == SDFHit(sdf_sphere(p, radius), color)

PlaneColor == <<Rat(7, 20), Rat(7, 20), Rat(2, 5)>>
SphereColor == <<Rat(1, 1), Rat(1, 4), Rat(1, 4)>>
White == <<Rat(1, 1), Rat(1, 1), Rat(1, 1)>>

\* the distances an arbitrary scene returns, sample by sample: inside a shape,
\* below the threshold, the threshold itself, and two steps above it
SampleDists == {Rat(0 - 1, 2), Rat(1, 2000), Rat(1, 1000), Rat(1, 2), Rat(60, 1)}

\* a single sphere of radius rad whose centre lies on the ray at distance D > rad
SphereDs == {Rat(2001, 2000), Rat(3, 1), Rat(101, 1), Rat(102, 1), Rat(200, 1)}
SphereRs == {Rat(1, 2), Rat(1, 1), Rat(2, 1)}
Scenes ==
    {[kind |-> "any"]} \cup
    {[kind |-> "sphere", D |-> D, rad |-> rad] :
        D \in SphereDs, rad \in SphereRs}

\* what scene_sdf can return at the point of ray distance dist
scene_sdf(scene, dist) ==
    IF scene.kind = "sphere"
    THEN {sdf_sphere_color(fsub(dist, scene.D), scene.rad, SphereColor)}
    ELSE {SDFHit(d, PlaneColor) : d \in SampleDists}

\* raymarch up to the for loop
raymarch_entry(scene) ==
    [pc |-> "loop", scene |-> scene,
     hit |-> FALSE, hit_pos |-> "zero", hit_normal |-> "up", hit_color |-> White,
     dist |-> Rat(0, 1), step |-> 0,
     \* ghosts: scene_sdf calls so far, whether all loop samples were >= threshold,
     \* the last sample with its point, and what ended the loop
     evals |-> 0, far |-> TRUE, d |-> Rat(0, 1), p |-> Rat(0, 1), exit |-> "none"]

raymarch_iter_hit_at_threshold(m, h) ==
    LET p == m.dist
        sampled == [m EXCEPT !.evals = @ + 1, !.d = h.d, !.p = p,
                             !.far = @ /\ fle(threshold, h.d)]
    IN  IF fle(h.d, threshold)
        THEN [sampled EXCEPT !.hit = TRUE, !.hit_pos = p,
                             !.hit_normal = "calc_normal", !.hit_color = h.color,
                             !.evals = @ + NORMAL_SAMPLES,
                             !.pc = "done", !.exit = "hit"]
        ELSE LET dist == fadd(m.dist, h.d)
             IN  IF flt(max_dist, dist)
                 THEN [sampled EXCEPT !.dist = dist, !.pc = "done", !.exit = "max_dist"]
                 ELSE IF m.step + 1 < MAX_STEPS
                 THEN [sampled EXCEPT !.dist = dist, !.step = @ + 1]
                 ELSE [sampled EXCEPT !.dist = dist, !.step = @ + 1,
                                      !.pc = "done", !.exit = "steps"]

\* an iteration that never compares dist with max_dist
raymarch_iter_no_max_dist(m, h) ==
    LET p == m.dist
        sampled == [m EXCEPT !.evals = @ + 1, !.d = h.d, !.p = p,
                             !.far = @ /\ fle(threshold, h.d)]
    IN  IF flt(h.d, threshold)
        THEN [sampled EXCEPT !.hit = TRUE, !.hit_pos = p,
                             !.hit_normal = "calc_normal", !.hit_color = h.color,
                             !.evals = @ + NORMAL_SAMPLES,
                             !.pc = "done", !.exit = "hit"]
        ELSE IF m.step + 1 < MAX_STEPS
        THEN [sampled EXCEPT !.dist = fadd(m.dist, h.d), !.step = @ + 1]
        ELSE [sampled EXCEPT !.dist = fadd(m.dist, h.d), !.step = @ + 1,
                             !.pc = "done", !.exit = "steps"]

\* one iteration of the for loop, h being what scene_sdf(p) returned; a hit
\* returns after calc_normal(p), which calls scene_sdf six more times
raymarch_iter(m, h) ==
    LET p == m.dist
        sampled == [m EXCEPT !.evals = @ + 1, !.d = h.d, !.p = p,
                             !.far = @ /\ fle(threshold, h.d)]
    IN  IF flt(h.d, threshold)
        THEN [sampled EXCEPT !.hit = TRUE, !.hit_pos = p,
                             !.hit_normal = "calc_normal", !.hit_color = h.color,
                             !.evals = @ + NORMAL_SAMPLES,
                             !.pc = "done", !.exit = "hit"]
        ELSE LET dist == fadd(m.dist, h.d)
             IN  IF flt(max_dist, dist)
                 THEN [sampled EXCEPT !.dist = dist, !.pc = "done", !.exit = "max_dist"]
                 ELSE IF m.step + 1 < MAX_STEPS
                 THEN [sampled EXCEPT !.dist = dist, !.step = @ + 1]
                 ELSE [sampled EXCEPT !.dist = dist, !.step = @ + 1,
                                      !.pc = "done", !.exit = "steps"]

InitMarch ==
    /\ \E scene \in Scenes : mr = raymarch_entry(scene)
    /\ opv = [op |-> "none"]
    /\ sw = [pc |-> "none"]
    /\ IdleTwin
    /\ IdleRenderer
    /\ IdleCamera

MarchStep ==
    /\ mr.pc = "loop"
    /\ \E h \in scene_sdf(mr.scene, mr.dist) : mr' = raymarch_iter(mr, h)
    /\ UNCHANGED <<rendererVars, cameraVars, opv, sw, twin>>

NextMarch == MarchStep

SpecMarch == InitMarch /\ [][NextMarch]_vars

\* the loop is scheduled until raymarch returns
SpecMarchFair == SpecMarch /\ WF_vars(MarchStep)

\* ---------------------------------------------------------------------------
\* Properties of raymarch
\* ---------------------------------------------------------------------------

\* scene_sdf calls made by the marching loop itself, without calc_normal's
LoopSamples == IF mr.hit THEN mr.evals - NORMAL_SAMPLES ELSE mr.evals

\* raymarch returns hit = false when no sample was below the threshold,
\* whichever way the loop ended
NoHitWhenFar ==
    (mr.pc = "done" /\ mr.far) => (~mr.hit /\ mr.exit \in {"max_dist", "steps"})

\* the claim as stated: at most 128 scene evaluations in all
C16_Original ==
    mr.pc # "none" => (mr.evals <= MAX_STEPS /\ NoHitWhenFar)

\* C16: raymarch terminates; its loop evaluates the scene at most 128 times,
\* and a hit adds the 6 evaluations of calc_normal, at most 134 in all; for a
\* ray whose samples are all >= 0.001 it returns hit = false after at most 128
\* evaluations, whether dist exceeded 100 or the 128 steps were used up.
C16_MarchTerminates ==
    /\ [](mr.pc # "none" =>
            /\ LoopSamples <= MAX_STEPS
            /\ mr.evals <= MAX_STEPS + NORMAL_SAMPLES
            /\ mr.pc = "loop" => (mr.step < MAX_STEPS /\ mr.evals = mr.step)
            /\ NoHitWhenFar
            /\ (mr.pc = "done" /\ mr.far) => mr.evals <= MAX_STEPS)
    /\ <>(mr.pc = "done")

\* a ray that used up the 128 steps without a sample below the threshold
C16_Witness ==
    /\ mr.pc = "done"
    /\ mr.far
    /\ mr.exit = "steps"
    /\ mr.evals = MAX_STEPS
    /\ ~mr.hit

\* raymarch reported a hit within the threshold of ray distance D - rad
HitsSphereFront ==
    /\ mr.hit
    /\ LET front == fsub(mr.scene.D, mr.scene.rad)
       IN  /\ fle(fsub(mr.hit_pos, front), threshold)
           /\ fle(fsub(front, mr.hit_pos), threshold)

\* the claim as stated: for every D > rad
C17_Original ==
    (mr.pc = "done" /\ mr.scene.kind = "sphere" /\ flt(mr.scene.rad, mr.scene.D))
        => HitsSphereFront

\* C17: for a single sphere of radius rad and a ray aimed at its centre from
\* distance D > rad with D - rad <= 100, raymarch returns hit = true at a point
\* within 0.001 of ray distance D - rad; with D - rad > 100 it returns hit = false.
C17_SphereHitWithinRange ==
    (mr.pc = "done" /\ mr.scene.kind = "sphere" /\ flt(mr.scene.rad, mr.scene.D))
        => IF fle(fsub(mr.scene.D, mr.scene.rad), max_dist)
           THEN HitsSphereFront
           ELSE ~mr.hit

\* the sphere whose front is exactly 100 away is hit, on the second sample
C17_Witness ==
    /\ mr.pc = "done"
    /\ mr.scene.kind = "sphere"
    /\ fsub(mr.scene.D, mr.scene.rad) = max_dist
    /\ mr.hit
    /\ mr.hit_pos = max_dist
    /\ mr.evals = 2 + NORMAL_SAMPLES

\* ---------------------------------------------------------------------------
\* src/shaders/raymarch.frag: shadow_ray
\* ---------------------------------------------------------------------------

SHADOW_MAX_STEPS == 64
shadow_k == Rat(32, 1)

\* the max_dist the caller passes is light_dist - 0.002; it is below zero for
\* a hit point nearer to the light than that
ShadowMaxDists == {Rat(0 - 1, 1000), Rat(0, 1), Rat(1, 20), Rat(1, 2), Rat(3, 1)}

\* the distances the scene returns to the shadow ray, sample by sample
ShadowSampleDists == {Rat(0 - 1, 2), Rat(1, 2000), Rat(1, 1000), Rat(1, 2)}

shadow_soft_unclamped(soft, d, dist) ==
    fdiv(fmul(shadow_k, d), max(dist, Rat(1, 1000)))

\* soft = min(soft, k * d / max(dist, 0.001))
shadow_soft(soft, d, dist) ==
    min(soft, fdiv(fmul(shadow_k, d), max(dist, Rat(1, 1000))))

\* shadow_ray up to the for loop
shadow_ray_entry(maxd) ==
    [pc |-> "loop", max_dist |-> maxd, dist |-> Rat(0, 1), soft |-> Rat(1, 1),
     step |-> 0, ret |-> Rat(1, 1),
     \* ghosts: scene_sdf calls so far, the first sample (once evals > 0), whether
     \* all samples were >= threshold, whether all of them left soft alone, what ended the loop
     evals |-> 0, first |-> Rat(0, 1), far |-> TRUE, clear |-> TRUE, exit |-> "none"]

shadow_ray_iter_blocked_returns_soft(m, d) ==
    IF fle(m.max_dist, m.dist)
    THEN [m EXCEPT !.pc = "done", !.ret = m.soft, !.exit = "max_dist"]
    ELSE LET sampled == [m EXCEPT !.evals = @ + 1,
                                  !.first = IF m.evals = 0 THEN d ELSE @,
                                  !.far = @ /\ fle(threshold, d)]
         IN  IF flt(d, threshold)
             THEN [sampled EXCEPT !.pc = "done", !.ret = m.soft, !.exit = "blocked"]
             ELSE LET soft == shadow_soft(m.soft, d, m.dist)
                      next == [sampled EXCEPT !.soft = soft, !.dist = fadd(m.dist, d),
                                              !.step = @ + 1,
                                              !.clear = @ /\ soft = m.soft]
                  IN  IF m.step + 1 < SHADOW_MAX_STEPS
                      THEN next
                      ELSE [next EXCEPT !.pc = "done", !.ret = soft, !.exit = "steps"]

\* one iteration of the for loop, d being scene_sdf(p).d if the iteration
\* gets to sample it; the loop running out returns soft
shadow_ray_iter(m, d) ==
    IF fle(m.max_dist, m.dist)
    THEN [m EXCEPT !.pc = "done", !.ret = m.soft, !.exit = "max_dist"]
    ELSE LET sampled == [m EXCEPT !.evals = @ + 1,
                                  !.first = IF m.evals = 0 THEN d ELSE @,
                                  !.far = @ /\ fle(threshold, d)]
         IN  IF flt(d, threshold)
             THEN [sampled EXCEPT !.pc = "done", !.ret = Rat(0, 1), !.exit = "blocked"]
             ELSE LET soft == shadow_soft(m.soft, d, m.dist)
                      next == [sampled EXCEPT !.soft = soft, !.dist = fadd(m.dist, d),
                                              !.step = @ + 1,
                                              !.clear = @ /\ soft = m.soft]
                  IN  IF m.step + 1 < SHADOW_MAX_STEPS
                      THEN next
                      ELSE [next EXCEPT !.pc = "done", !.ret = soft, !.exit = "steps"]

InitShadow ==
    /\ \E maxd \in ShadowMaxDists : sw = shadow_ray_entry(maxd)
    /\ opv = [op |-> "none"]
    /\ mr = [pc |-> "none"]
    /\ IdleTwin
    /\ IdleRenderer
    /\ IdleCamera

ShadowStep ==
    /\ sw.pc = "loop"
    /\ \E d \in ShadowSampleDists : sw' = shadow_ray_iter(sw, d)
    /\ UNCHANGED <<rendererVars, cameraVars, opv, mr, twin>>

NextShadow == ShadowStep

SpecShadow == InitShadow /\ [][NextShadow]_vars

\* the loop is scheduled until shadow_ray returns
SpecShadowFair == SpecShadow /\ WF_vars(ShadowStep)

\* ---------------------------------------------------------------------------
\* Properties of shadow_ray
\* ---------------------------------------------------------------------------

\* shadow_ray returned, its first sample having been below the threshold
FirstSampleBlocked ==
    sw.pc = "done" /\ sw.evals > 0 /\ flt(sw.first, threshold)

\* shadow_ray returned because dist reached max_dist, no sample below the threshold
ReachedLight ==
    sw.pc = "done" /\ sw.exit = "max_dist" /\ sw.far

\* the claim as stated: 1 whenever no sample fell below the threshold
C18_Original ==
    /\ FirstSampleBlocked => sw.ret = Rat(0, 1)
    /\ ReachedLight => sw.ret = Rat(1, 1)

\* C18: shadow_ray returns exactly 0 when its first sample is below 0.001; when
\* dist reaches max_dist with no sample below 0.001 it returns the running
\* minimum, a value in (0, 1], which is exactly 1 if and only if every sample d
\* taken at travelled distance t had 32 d >= max(t, 0.001).
C18_ShadowEndpoints ==
    /\ FirstSampleBlocked => sw.ret = Rat(0, 1)
    /\ ReachedLight =>
           /\ sw.ret = sw.soft
           /\ sw.ret.n > 0
           /\ fle(sw.ret, Rat(1, 1))
           /\ (sw.ret = Rat(1, 1)) <=> sw.clear

\* a ray that took samples, none of them near a surface, and reached max_dist
C18_Witness ==
    /\ ReachedLight
    /\ sw.evals >= 2
    /\ sw.clear
    /\ sw.ret = Rat(1, 1)

\* C19: shadow_ray terminates within 64 scene evaluations and returns a value
\* in [0, 1]; soft starts at 1 and never increases; and 0 is returned only
\* when some sample fell below the threshold.
C19_ShadowBounded ==
    /\ [](sw.pc # "none" =>
            /\ sw.evals <= SHADOW_MAX_STEPS
            /\ sw.evals = 0 => sw.soft = Rat(1, 1)
            /\ sw.soft.n >= 0 /\ fle(sw.soft, Rat(1, 1))
            /\ sw.pc = "done" =>
                   /\ sw.ret.n >= 0 /\ fle(sw.ret, Rat(1, 1))
                   /\ sw.ret.n = 0 => ~sw.far)
    /\ [][sw.pc # "none" => fle(sw'.soft, sw.soft)]_sw
    /\ <>(sw.pc = "done")

\* a ray that used up the 64 steps in the penumbra
C19_Witness ==
    /\ sw.pc = "done"
    /\ sw.exit = "steps"
    /\ sw.evals = SHADOW_MAX_STEPS
    /\ sw.ret.n > 0
    /\ flt(sw.ret, Rat(1, 1))

\* ---------------------------------------------------------------------------
\* The two variants side by side: a host that issues every call to a direct
\* renderer (src/gl_renderer.c) and to a compute+blit renderer
\* (src/unnamed/part_001), each in a GL context and a heap of its own.
\* ---------------------------------------------------------------------------

\* builds (create and reload calls) issued to the pair
MaxPairBuilds == 2

\* one renderer of the pair before any call
SideIdle ==
    [renderer |-> NULL, r |-> ZeroStruct, gl |-> EmptyGL, heap |-> 0,
     cmds |-> << >>, ret |-> "none"]

\* every compile and link step of the call succeeds
BuildSucceeds(o) ==
    o.comp = "ok" /\ o.clink /\ o.vert = "ok" /\ o.frag = "ok" /\ o.link

\* what one call meets in the direct and in the compute+blit renderer: the
\* same allocation outcome, and compile and link steps that succeed in both
\* or fail, at some step, in both
OutcomePairs ==
    {op \in Outcomes("direct") \X Outcomes("compute") :
        /\ op[1].alloc = op[2].alloc
        /\ BuildSucceeds(op[1]) = BuildSucceeds(op[2])}

side_create(v, s, width, height, o, b) ==
    LET res == IF v = "direct"
               THEN gl_renderer_create_direct(s.gl, s.heap, width, height, o, b)
               ELSE gl_renderer_create_compute(s.gl, s.heap, width, height, o, b)
    IN  [renderer |-> res.ret, r |-> res.r, gl |-> res.gl, heap |-> res.heap,
         cmds |-> << >>, ret |-> IF res.ret = NULL THEN "NULL" ELSE "handle"]

side_destroy(v, s) ==
    LET res == IF v = "direct"
               THEN gl_renderer_destroy_direct(s.renderer, s.r, s.gl, s.heap)
               ELSE gl_renderer_destroy_compute(s.renderer, s.r, s.gl, s.heap)
    IN  [renderer |-> NULL, r |-> res.r, gl |-> res.gl, heap |-> res.heap,
         cmds |-> << >>, ret |-> "void"]

side_resize(v, s, width, height) ==
    LET res == IF v = "direct"
               THEN gl_renderer_resize_direct(s.renderer, s.r, s.gl, width, height)
               ELSE gl_renderer_resize_compute(s.renderer, s.r, s.gl, width, height)
    IN  [s EXCEPT !.r = res.r, !.gl = res.gl, !.cmds = << >>, !.ret = "void"]

side_reload(v, s, o, b) ==
    LET res == IF v = "direct"
               THEN gl_renderer_reload_shaders_direct(s.renderer, s.r, s.gl, o, b)
               ELSE gl_renderer_reload_shaders_compute(s.renderer, s.r, s.gl, o, b)
    IN  [s EXCEPT !.r = res.r, !.gl = res.gl, !.cmds = << >>,
                  !.ret = IF res.ret THEN "true" ELSE "false"]

InitPair ==
    /\ twin = [pc |-> "pair", op |-> "init", d |-> SideIdle, c |-> SideIdle, nbuild |-> 0]
    /\ IdleShader
    /\ IdleRenderer
    /\ IdleCamera

PairCreate ==
    /\ twin.pc = "pair"
    /\ twin.d.renderer = NULL /\ twin.c.renderer = NULL
    /\ twin.nbuild < MaxPairBuilds
    /\ \E dim \in DimPairs, o \in OutcomePairs :
          twin' = [twin EXCEPT
                     !.op = "create",
                     !.d = side_create("direct", @, dim[1], dim[2], o[1], twin.nbuild + 1),
                     !.c = side_create("compute", @, dim[1], dim[2], o[2], twin.nbuild + 1),
                     !.nbuild = @ + 1]
    /\ UNCHANGED <<rendererVars, cameraVars, shaderVars>>

PairDestroy ==
    /\ twin.pc = "pair"
    /\ twin' = [twin EXCEPT !.op = "destroy",
                            !.d = side_destroy("direct", @),
                            !.c = side_destroy("compute", @)]
    /\ UNCHANGED <<rendererVars, cameraVars, shaderVars>>

PairDraw ==
    /\ twin.pc = "pair"
    /\ \E t \in Times, cam \in CamPtrs, y \in {0, MOUSE_SENSITIVITY}, p \in {PITCH_LIMIT},
          gx \in num_groups(twin.c.r.width), gy \in num_groups(twin.c.r.height) :
          twin' = [twin EXCEPT
                     !.op = "draw",
                     !.d.cmds = gl_renderer_draw_direct(twin.d.renderer, twin.d.r, t, cam, y, p),
                     !.d.ret = "void",
                     !.c.cmds = gl_renderer_draw_compute(twin.c.renderer, twin.c.r,
                                                         t, cam, y, p, gx, gy),
                     !.c.ret = "void"]
    /\ UNCHANGED <<rendererVars, cameraVars, shaderVars>>

PairResize ==
    /\ twin.pc = "pair"
    /\ \E dim \in DimPairs :
          twin' = [twin EXCEPT !.op = "resize",
                               !.d = side_resize("direct", @, dim[1], dim[2]),
                               !.c = side_resize("compute", @, dim[1], dim[2])]
    /\ UNCHANGED <<rendererVars, cameraVars, shaderVars>>

PairReload ==
    /\ twin.pc = "pair"
    /\ twin.nbuild < MaxPairBuilds
    /\ \E o \in {x \in OutcomePairs : x[1].alloc} :
          twin' = [twin EXCEPT
                     !.op = "reload",
                     !.d = side_reload("direct", @, o[1], twin.nbuild + 1),
                     !.c = side_reload("compute", @, o[2], twin.nbuild + 1),
                     !.nbuild = @ + 1]
    /\ UNCHANGED <<rendererVars, cameraVars, shaderVars>>

NextPair == PairCreate \/ PairDestroy \/ PairDraw \/ PairResize \/ PairReload

SpecPair == InitPair /\ [][NextPair]_vars

\* ---------------------------------------------------------------------------
\* Properties of the pair
\* ---------------------------------------------------------------------------

\* the uniforms a command list sets on program prog: names and values, in order
UniformsOn(cs, prog) ==
    LET on == SelectSeq(cs, LAMBDA c : c.cmd = "uniform" /\ c.prog = prog)
    IN  [i \in 1..Len(on) |-> <<on[i].name, on[i].val>>]

RaymarchUniformNames ==
    {"u_resolution", "u_time", "u_camera_pos", "u_camera_forward",
     "u_camera_right", "u_camera_up"}

\* C20: driven by the same calls with outcomes that agree, the direct and the
\* compute+blit renderer return the same results, report the same ok flag,
\* store the same width and height, and each draw sets the same uniforms to
\* the same values on the program that raymarches (program in the one,
\* compute_program in the other).
C20_VariantsInterchangeable ==
    twin.pc = "pair" =>
        /\ twin.d.ret = twin.c.ret
        /\ (twin.d.renderer = NULL) <=> (twin.c.renderer = NULL)
        /\ gl_renderer_ok(twin.d.renderer, twin.d.r) = gl_renderer_ok(twin.c.renderer, twin.c.r)
        /\ twin.d.r.width = twin.c.r.width
        /\ twin.d.r.height = twin.c.r.height
        /\ UniformsOn(twin.d.cmds, twin.d.r.program)
               = UniformsOn(twin.c.cmds, twin.c.r.compute_program)
        /\ \A i \in 1..Len(twin.d.cmds) :
               twin.d.cmds[i].cmd = "uniform" => twin.d.cmds[i].prog = twin.d.r.program

\* a draw after a resize and a successful reload, with a camera: both
\* renderers set all six uniforms
C20_Witness ==
    /\ twin.pc = "pair"
    /\ twin.op = "draw"
    /\ twin.nbuild = 2
    /\ twin.d.r.width # WIDTH
    /\ {u[1] : u \in {UniformsOn(twin.c.cmds, twin.c.r.compute_program)[i] :
                        i \in 1..Len(UniformsOn(twin.c.cmds, twin.c.r.compute_program))}}
           = RaymarchUniformNames
    /\ UniformsOn(twin.d.cmds, twin.d.r.program)
           = UniformsOn(twin.c.cmds, twin.c.r.compute_program)

\* ---------------------------------------------------------------------------
\* Properties of the marching steps
\* ---------------------------------------------------------------------------

\* C21: in raymarch an iteration that is not a hit adds exactly the distance
\* just sampled to dist, so dist strictly increases from iteration to
\* iteration; the scene is never sampled at a dist above 100; and hit_pos is
\* exactly the point whose sample was below the threshold.
C21_MarchSteps ==
    /\ [][(mr.pc = "loop" /\ mr'.exit # "hit") =>
              /\ mr'.dist = fadd(mr.dist, mr'.d)
              /\ flt(mr.dist, mr'.dist)
              /\ mr'.p = mr.dist]_mr
    /\ [](mr.pc # "none" =>
              /\ fle(mr.p, max_dist)
              /\ mr.pc = "loop" => fle(mr.dist, max_dist)
              /\ mr.hit => (mr.hit_pos = mr.p /\ mr.hit_pos = mr.dist
                                /\ flt(mr.d, threshold)))

\* a hit reported after several advancing steps, away from the origin
C21_Witness ==
    /\ mr.pc = "done"
    /\ mr.hit
    /\ mr.scene.kind = "any"
    /\ mr.step >= 3
    /\ flt(Rat(1, 1), mr.hit_pos)
    /\ mr.hit_pos = mr.p

\* ---------------------------------------------------------------------------
\* Smooth union against hard union
\* ---------------------------------------------------------------------------

\* C22: outside the blend region, |a.d - b.d| >= 4k, the SDFHit smooth union
\* returns the distance and the colour of the operand with the smaller
\* distance, as the hard union does.
C22_SmoothUnionColourOutsideBlend ==
    (opv.op = "opSmoothUnion" /\ SmoothH(opv.a.d, opv.b.d, opv.k).n = 0) =>
        /\ IsMin(opv.hit.d, opv.a.d, opv.b.d)
        /\ flt(opv.a.d, opv.b.d) => opv.hit.color = opv.a.color
        /\ flt(opv.b.d, opv.a.d) => opv.hit.color = opv.b.color

\* ---------------------------------------------------------------------------
\* Frame conditions of reload and draw
\* ---------------------------------------------------------------------------

\* C23: a reload that returns false, whichever step failed, has deleted every
\* shader and program object it created: as many GL objects are outstanding
\* after the call as before it.
C23_FailedReloadReleasesAll ==
    (last.op = "reload" /\ last.ret = "false") => Outstanding(gl) = last.nobj

\* the fields of the struct other than the program handles
KeptFields(R) ==
    <<R.width, R.height, R.vao, R.vbo, R.output_texture, R.ok>>

\* C24: a reload, whether it returns true or false, leaves width, height, vao,
\* vbo, output_texture and ok as they were, and a draw leaves the whole
\* struct as it was; so a renderer that create returned is ok until destroy.
C24_ReloadAndDrawFrame ==
    /\ [][/\ last'.op = "reload" =>
                 (KeptFields(r') = KeptFields(r) /\ renderer' = renderer)
          /\ last'.op = "draw" => (r' = r /\ renderer' = renderer /\ gl' = gl)]_vars
    /\ [](renderer # NULL => gl_renderer_ok(renderer, r))

\* a created renderer that is still ok after a reload that failed
C24_Witness ==
    /\ renderer # NULL
    /\ last.op = "reload"
    /\ last.ret = "false"
    /\ last.stage = "link"
    /\ gl_renderer_ok(renderer, r)
====
